---------------------------- MODULE Spec2Model ----------------------------
(* Model of the QMK keyboard companion (keyboard_monitor.py): the high score *)
(* table (HighScoreManager), the Raw HID frames, the game message handler    *)
(* and the main loop with its reconnect / probe / read / telemetry steps.    *)
EXTENDS Integers, Sequences, FiniteSets, TLC

VARIABLES
    scores,          \* HighScoreManager.scores: sequence of entries, best first
    store,           \* content of highscores.json: <<"ok", entries>> or <<"bad">>
    next_seq,        \* history: submission number the next appended entry gets
    last_call,       \* history: the last check_score / add_score call and result
    test_date,       \* args.test_date: None or the override date/time
    weather_enabled, \* not args.no_weather
    system,          \* platform.system()
    pc,              \* position of main() in its loop
    device,          \* the HID handle, or None
    first_connection,\* no connection has succeeded yet
    last_volume,     \* last volume sent, or None
    last_media,      \* last media text sent, or None
    last_weather,    \* last weather state sent, or None
    elapsed,         \* current_time - last_<timer>, per timer, capped at its interval
    tick_log,        \* history: the transport and collaborator calls of this iteration
    pushed,          \* history: per kind, the value last written successfully on this handle
    since_attempt,   \* history: time since connect_to_keyboard was last called
    since_connect,   \* history: scheduler passes and failures on this handle
    since_fail       \* history: time since a write last failed

boardVars == <<scores, store, next_seq, last_call>>
cfgVars == <<test_date, weather_enabled, system>>
keptVars == <<test_date, weather_enabled, system, first_connection>>
lastVars == <<last_volume, last_media, last_weather>>
vars == <<scores, store, next_seq, last_call, test_date, weather_enabled, system, pc, device,
          first_connection,
          last_volume, last_media, last_weather, elapsed, tick_log, pushed,
          since_attempt, since_connect, since_fail>>

(***************************************************************************)
(* Optional values: Python None is the empty tuple, a value v is <<v>>.    *)
(***************************************************************************)
None == <<>>
Some(v) == <<v>>

\* the literal 10 of add_score / check_score / load_scores ("top 10")
TopN == 10

(***************************************************************************)
(* Bounds of the exploration.                                              *)
(***************************************************************************)
\* number of add_score calls explored after loading
MaxInserts == 2
\* longest stored file is TopN + MaxExtra entries
MaxExtra == 1

\* names are strings of code points; "AAA" and "BBB"
NameA == <<65, 65, 65>>
NameB == <<66, 66, 66>>
Names == {NameA, NameB}
\* scores submitted by the game (16-bit values on the wire)
ScoreValues == {10, 20, 30}

(***************************************************************************)
(* list.sort(key=lambda x: x['score'], reverse=True): a stable sort, equal *)
(* keys keep their original relative order also with reverse=True.         *)
(***************************************************************************)
\* variant: a sort that is not stable (the new element goes before its equals)
RECURSIVE InsertBeforeEqual(_, _)
InsertBeforeEqual(sorted, e) ==
    IF sorted = <<>> THEN <<e>>
    ELSE IF Head(sorted).score > e.score
         THEN <<Head(sorted)>> \o InsertBeforeEqual(Tail(sorted), e)
         ELSE <<e>> \o sorted

RECURSIVE InsertDesc(_, _)
InsertDesc(sorted, e) ==
    IF sorted = <<>> THEN <<e>>
    ELSE IF Head(sorted).score >= e.score
         THEN <<Head(sorted)>> \o InsertDesc(Tail(sorted), e)
         ELSE <<e>> \o sorted

RECURSIVE SortFrom(_, _)
SortFrom(acc, rest) ==
    IF rest = <<>> THEN acc
    ELSE SortFrom(InsertDesc(acc, Head(rest)), Tail(rest))

SortDesc(list) == SortFrom(<<>>, list)

\* data[:n]
Take(list, n) == SubSeq(list, 1, IF Len(list) < n THEN Len(list) ELSE n)

\* the dict {'name': ..., 'score': ...} as json.dump writes it (no history field)
Plain(e) == [name |-> e.name, score |-> e.score]
PlainList(list) == [i \in 1..Len(list) |-> Plain(list[i])]

(***************************************************************************)
(* HighScoreManager.load_scores                                            *)
(***************************************************************************)
\* entries of the file are numbered in file order, up to 0; later submissions from 1
Numbered(list) ==
    [i \in 1..Len(list) |->
        [name |-> list[i].name, score |-> list[i].score, seq |-> i - Len(list)]]

\* variant: the sort puts entries with equal scores in the reverse of file order
load_scores_ties_reversed(file) ==
    IF file[1] = "ok"
    THEN LET list == Numbered(file[2])
         IN Take(SortDesc([i \in 1..Len(list) |-> list[Len(list) + 1 - i]]), TopN)
    ELSE <<>>

\* variant: the file is taken in the order it is stored in
load_scores_unsorted(file) ==
    IF file[1] = "ok" THEN Take(Numbered(file[2]), TopN)
    ELSE <<>>

load_scores(file) ==
    IF file[1] = "ok" THEN Take(SortDesc(Numbered(file[2])), TopN)
    ELSE <<>>

(***************************************************************************)
(* HighScoreManager.save_scores: the write either succeeds, or fails       *)
(* before the file is opened (file unchanged), or fails after open(..,'w') *)
(* truncated it (file no longer parses).                                   *)
(***************************************************************************)
SaveOutcomes == {"saved", "unchanged", "damaged"}

save_scores(table, file, outcome) ==
    CASE outcome = "saved" -> <<"ok", PlainList(table)>>
      [] outcome = "unchanged" -> file
      [] OTHER -> <<"bad">>

(***************************************************************************)
(* HighScoreManager.add_score: the sorted list before truncation, the rank *)
(* found by the name/score scan, the kept table and the returned value.    *)
(***************************************************************************)
AddSorted(table, e) == SortDesc(Append(table, e))

\* variant: the scan compares the name only
FindRankByName(sorted, name, score) ==
    LET hits == {i \in 1..Len(sorted) : sorted[i].name = name}
    IN IF hits = {} THEN -1
       ELSE (CHOOSE i \in hits : \A j \in hits : i <= j) - 1

\* for i, entry in enumerate(...): if entry['name'] == name and entry['score'] == score
FindRank(sorted, name, score) ==
    LET hits == {i \in 1..Len(sorted) :
                    sorted[i].name = name /\ sorted[i].score = score}
    IN IF hits = {} THEN -1
       ELSE (CHOOSE i \in hits : \A j \in hits : i <= j) - 1

\* variant: the list is cut to ten before it is sorted
AddKeptCutFirst(table, e) == SortDesc(Take(Append(table, e), TopN))

AddKept(table, e) == Take(AddSorted(table, e), TopN)

\* what save_scores() writes at the end of add_score: self.scores after the cut
\* variant: the file is written before the list is cut to ten
AddSavedUncut(table, e) == AddSorted(table, e)

AddSaved(table, e) == AddKept(table, e)

\* variant: the last place is taken for "not in the top 10"
AddReturnOffByOne(table, e) ==
    LET rank == FindRank(AddSorted(table, e), e.name, e.score)
    IN IF rank < TopN - 1 THEN rank ELSE -1

AddReturn(table, e) ==
    LET rank == FindRank(AddSorted(table, e), e.name, e.score)
    IN IF rank < TopN THEN rank ELSE -1

(***************************************************************************)
(* HighScoreManager.check_score                                            *)
(***************************************************************************)
\* variant: a score equal to the last place also qualifies
check_score_ge(table, score) ==
    IF Len(table) < TopN THEN Len(table)
    ELSE IF score >= table[TopN].score
         THEN LET lower == {i \in 1..Len(table) : score > table[i].score}
              IN IF lower = {} THEN TopN - 1
                 ELSE (CHOOSE i \in lower : \A j \in lower : i <= j) - 1
         ELSE -1

check_score(table, score) ==
    IF Len(table) < TopN THEN Len(table)
    ELSE IF score > table[TopN].score
         THEN LET lower == {i \in 1..Len(table) : score > table[i].score}
              IN IF lower = {} THEN TopN - 1
                 ELSE (CHOOSE i \in lower : \A j \in lower : i <= j) - 1
         ELSE -1

(***************************************************************************)
(* Raw HID frames.                                                         *)
(***************************************************************************)
HID_PACKET_SIZE == 32
CMD_VOLUME_UPDATE == 1
CMD_MEDIA_UPDATE == 2
CMD_DATETIME_UPDATE == 3
CMD_WEATHER_UPDATE == 4
MSG_SCORE_SUBMIT == 16
MSG_ENTER_NAME == 17
MSG_SHOW_SCORES == 18
MSG_NAME_SUBMIT == 19

\* variant: only the assigned bytes, nothing after them
PacketUnpadded(bytes) == bytes

\* bytearray(HID_PACKET_SIZE) with the leading bytes assigned
Packet(bytes) ==
    [i \in 1..HID_PACKET_SIZE |-> IF i <= Len(bytes) THEN bytes[i] ELSE 0]

\* device.write([0] + list(packet)): the report ID byte, then the packet
Report(packet) == <<0>> \o packet

\* str.encode('utf-8') of one code point
Utf8Char(c) ==
    IF c < 128 THEN <<c>>
    ELSE IF c < 2048 THEN <<192 + (c \div 64), 128 + (c % 64)>>
    ELSE IF c < 65536
         THEN <<224 + (c \div 4096), 128 + ((c \div 64) % 64), 128 + (c % 64)>>
    ELSE <<240 + (c \div 262144), 128 + ((c \div 4096) % 64),
           128 + ((c \div 64) % 64), 128 + (c % 64)>>

RECURSIVE Utf8(_)
Utf8(text) == IF text = <<>> THEN <<>> ELSE Utf8Char(Head(text)) \o Utf8(Tail(text))

\* send_volume_update: packet[0] = CMD_VOLUME_UPDATE; packet[1] = volume
VolumePacket(volume) == Packet(<<CMD_VOLUME_UPDATE, volume>>)

\* send_media_update: media_text.encode('utf-8')[:30], then the terminator
MediaPacket(media_text) ==
    IF media_text /= <<>>
    THEN Packet(<<CMD_MEDIA_UPDATE>> \o Take(Utf8(media_text), 30) \o <<0>>)
    ELSE Packet(<<CMD_MEDIA_UPDATE, 0>>)

\* send_datetime_update: year low byte, year high byte, month, day, hour, minute, second
DateTimePacket(now) ==
    Packet(<<CMD_DATETIME_UPDATE, now.year % 256, (now.year \div 256) % 256,
             now.month, now.day, now.hour, now.minute, now.second>>)

\* send_weather_update
WeatherPacket(weather_state) == Packet(<<CMD_WEATHER_UPDATE, weather_state>>)

\* send_enter_name
EnterNamePacket(rank) == Packet(<<MSG_ENTER_NAME, rank>>)

\* variant: characters outside ASCII are replaced by '?'
NameFieldAscii(name) ==
    [i \in 1..3 |-> IF i <= Len(name) THEN (IF name[i] < 128 THEN name[i] ELSE 63) ELSE 32]

\* entry['name'][:3].ljust(3) as code points (32 is the space)
NameField(name) == [i \in 1..3 |-> IF i <= Len(name) THEN name[i] ELSE 32]

\* variant: the score is masked to 16 bits, not limited
ScoreFieldWrapped(score) == <<(score \div 256) % 256, score % 256>>

\* min(entry['score'], 65535), high byte then low byte
ScoreField(score) ==
    LET s == IF score < 65535 THEN score ELSE 65535
    IN <<(s \div 256) % 256, s % 256>>

\* the loop of send_show_scores: stops when offset + 5 > 32
RECURSIVE ShowScoresBytes(_, _)
ShowScoresBytes(list, offset) ==
    IF list = <<>> \/ offset + 5 > 32 THEN <<>>
    ELSE NameField(Head(list).name) \o ScoreField(Head(list).score)
         \o ShowScoresBytes(Tail(list), offset + 5)

ShowScoresPacket(table) ==
    Packet(<<MSG_SHOW_SCORES>> \o ShowScoresBytes(Take(table, 10), 1))

\* frames the keyboard sends (32 bytes as returned by device.read)
ScoreSubmitFrame(score) ==
    Packet(<<MSG_SCORE_SUBMIT, (score \div 256) % 256, score % 256>>)
NameSubmitFrame(name, score) ==
    Packet(<<MSG_NAME_SUBMIT>> \o name \o <<(score \div 256) % 256, score % 256>>)

\* one call on the transport, a collaborator or the file, as the history keeps it
Ev(op, kind, data, ok) == [op |-> op, kind |-> kind, data |-> data, ok |-> ok]
Write(kind, packet, ok) == Ev("write", kind, Report(packet), ok)
Poll(kind, value) == Ev("poll", kind, value, value /= None)
Close(ok) == Ev("close", "", <<>>, ok)

(***************************************************************************)
(* process_game_message(device, data, score_manager): what it does to the  *)
(* table and the file, the calls it makes (save, write), what it returns,   *)
(* and whether it raises (an index past the end of a short frame).         *)
(*   write_ok: whether device.write succeeds; outcome: how save_scores ends *)
(***************************************************************************)
Handled(table, file, seq, call, out, ret, raised) ==
    [scores |-> table, store |-> file, next_seq |-> seq, last_call |-> call,
     out |-> out, ret |-> ret, raised |-> raised]

NoCall == [op |-> "none", name |-> <<>>, score |-> 0, seq |-> 0, ret |-> 0,
           before |-> <<>>]

\* variant: rank 0 is taken for "not in the top 10"
process_game_message_gt(data, table, file, seq, call, write_ok, outcome) ==
    IF Len(data) = 0 THEN Handled(table, file, seq, call, <<>>, TRUE, FALSE)
    ELSE IF data[1] = MSG_SCORE_SUBMIT THEN
        IF Len(data) < 3 THEN Handled(table, file, seq, call, <<>>, TRUE, TRUE)
        ELSE LET score == data[2] * 256 + data[3]
                 rank == check_score(table, score)
                 c == [op |-> "check", name |-> <<>>, score |-> score, seq |-> 0,
                       ret |-> rank, before |-> table]
             IN IF rank > 0
                THEN Handled(table, file, seq, c,
                             <<Write("EnterName", EnterNamePacket(rank), write_ok)>>,
                             write_ok, FALSE)
                ELSE Handled(table, file, seq, c,
                             <<Write("ShowScores", ShowScoresPacket(table), write_ok)>>,
                             write_ok, FALSE)
    ELSE IF data[1] = MSG_NAME_SUBMIT THEN
        IF Len(data) < 6 THEN Handled(table, file, seq, call, <<>>, TRUE, TRUE)
        ELSE LET name == <<data[2], data[3], data[4]>>
                 score == data[5] * 256 + data[6]
                 e == [name |-> name, score |-> score, seq |-> seq]
                 kept == AddKept(table, e)
                 c == [op |-> "add", name |-> name, score |-> score, seq |-> seq,
                       ret |-> AddReturn(table, e), before |-> table]
             IN Handled(kept, save_scores(kept, file, outcome), seq + 1, c,
                        <<Ev("save", outcome, <<>>, outcome = "saved"),
                          Write("ShowScores", ShowScoresPacket(kept), write_ok)>>,
                        write_ok, FALSE)
    ELSE Handled(table, file, seq, call, <<>>, TRUE, FALSE)

\* variant: the answer to a name submission shows the table as it was before
process_game_message_stale(data, table, file, seq, call, write_ok, outcome) ==
    IF Len(data) = 0 THEN Handled(table, file, seq, call, <<>>, TRUE, FALSE)
    ELSE IF data[1] = MSG_SCORE_SUBMIT THEN
        IF Len(data) < 3 THEN Handled(table, file, seq, call, <<>>, TRUE, TRUE)
        ELSE LET score == data[2] * 256 + data[3]
                 rank == check_score(table, score)
                 c == [op |-> "check", name |-> <<>>, score |-> score, seq |-> 0,
                       ret |-> rank, before |-> table]
             IN IF rank >= 0
                THEN Handled(table, file, seq, c,
                             <<Write("EnterName", EnterNamePacket(rank), write_ok)>>,
                             write_ok, FALSE)
                ELSE Handled(table, file, seq, c,
                             <<Write("ShowScores", ShowScoresPacket(table), write_ok)>>,
                             write_ok, FALSE)
    ELSE IF data[1] = MSG_NAME_SUBMIT THEN
        IF Len(data) < 6 THEN Handled(table, file, seq, call, <<>>, TRUE, TRUE)
        ELSE LET name == <<data[2], data[3], data[4]>>
                 score == data[5] * 256 + data[6]
                 e == [name |-> name, score |-> score, seq |-> seq]
                 kept == AddKept(table, e)
                 c == [op |-> "add", name |-> name, score |-> score, seq |-> seq,
                       ret |-> AddReturn(table, e), before |-> table]
             IN Handled(kept, save_scores(kept, file, outcome), seq + 1, c,
                        <<Ev("save", outcome, <<>>, outcome = "saved"),
                          Write("ShowScores", ShowScoresPacket(table), write_ok)>>,
                        write_ok, FALSE)
    ELSE Handled(table, file, seq, call, <<>>, TRUE, FALSE)

\* the calls of a name submission after the table is updated: save_scores (which
\* reports a failure and returns), then send_show_scores
\* variant: a failed save ends the handling, nothing is sent
NameSubmitCallsStopAtFailure(kept, outcome, write_ok) ==
    IF outcome = "saved"
    THEN <<Ev("save", outcome, <<>>, TRUE),
           Write("ShowScores", ShowScoresPacket(kept), write_ok)>>
    ELSE <<Ev("save", outcome, <<>>, FALSE)>>

NameSubmitCalls(kept, outcome, write_ok) ==
    <<Ev("save", outcome, <<>>, outcome = "saved"),
      Write("ShowScores", ShowScoresPacket(kept), write_ok)>>

\* any other message type: return True
\* variant: a message type that is not known counts as a failure
OtherTagFails(table, file, seq, call) ==
    Handled(table, file, seq, call, <<>>, FALSE, FALSE)

OtherTag(table, file, seq, call) ==
    Handled(table, file, seq, call, <<>>, TRUE, FALSE)

\* a score that makes the top 10: return send_enter_name(device, rank)
\* variant: the place is reserved in the table, under the name "???", and saved
QualifiedReserves(table, file, seq, c, write_ok) ==
    LET kept == AddKept(table, [name |-> <<63, 63, 63>>, score |-> c.score, seq |-> seq])
    IN Handled(kept, save_scores(kept, file, "saved"), seq + 1, c,
               <<Write("EnterName", EnterNamePacket(c.ret), write_ok)>>, write_ok, FALSE)

Qualified(table, file, seq, c, write_ok) ==
    Handled(table, file, seq, c,
            <<Write("EnterName", EnterNamePacket(c.ret), write_ok)>>, write_ok, FALSE)

process_game_message(data, table, file, seq, call, write_ok, outcome) ==
    IF Len(data) = 0 THEN Handled(table, file, seq, call, <<>>, TRUE, FALSE)
    ELSE IF data[1] = MSG_SCORE_SUBMIT THEN
        IF Len(data) < 3 THEN Handled(table, file, seq, call, <<>>, TRUE, TRUE)
        ELSE LET score == data[2] * 256 + data[3]
                 rank == check_score(table, score)
                 c == [op |-> "check", name |-> <<>>, score |-> score, seq |-> 0,
                       ret |-> rank, before |-> table]
             IN IF rank >= 0
                THEN Qualified(table, file, seq, c, write_ok)
                ELSE Handled(table, file, seq, c,
                             <<Write("ShowScores", ShowScoresPacket(table), write_ok)>>,
                             write_ok, FALSE)
    ELSE IF data[1] = MSG_NAME_SUBMIT THEN
        IF Len(data) < 6 THEN Handled(table, file, seq, call, <<>>, TRUE, TRUE)
        ELSE LET name == <<data[2], data[3], data[4]>>
                 score == data[5] * 256 + data[6]
                 e == [name |-> name, score |-> score, seq |-> seq]
                 kept == AddKept(table, e)
                 c == [op |-> "add", name |-> name, score |-> score, seq |-> seq,
                       ret |-> AddReturn(table, e), before |-> table]
             IN Handled(kept, save_scores(AddSaved(table, e), file, outcome), seq + 1, c,
                        NameSubmitCalls(kept, outcome, write_ok), write_ok, FALSE)
    ELSE OtherTag(table, file, seq, call)

(***************************************************************************)
(* main(): timers, collaborators and the history of one loop iteration.    *)
(***************************************************************************)
reconnect_delay == 2
connection_check_interval == 1
MEDIA_POLL_INTERVAL == 1
\* DATETIME_UPDATE_INTERVAL is 60.0 in the source; the period is scaled down here
DATETIME_UPDATE_INTERVAL == 4
\* args.weather_interval (--weather-interval SECONDS), chosen small here
weather_interval == 3
\* most seconds that pass between two readings of time.time()
MaxStep == 2

Interval ==
    [connect_attempt |-> reconnect_delay,
     connection_check |-> connection_check_interval,
     media_check |-> MEDIA_POLL_INTERVAL,
     datetime_update |-> DATETIME_UPDATE_INTERVAL,
     weather_check |-> weather_interval]

Min(a, b) == IF a < b THEN a ELSE b

\* current_time = time.time(), d seconds after the previous reading
Advance(el, d) == [k \in DOMAIN el |-> Min(el[k] + d, Interval[k])]

\* current_time - last_<timer> >= <interval>
Due(el, timer) == el[timer] >= Interval[timer]

\* if current_time - last_connect_attempt >= reconnect_delay
\* variant: the delay has to be exceeded, and the timer is read too early for that
ReconnectDueNever(el) == el["connect_attempt"] > Interval["connect_attempt"]

\* variant: the attempt fires one second early
ReconnectDueEarly(el) == el["connect_attempt"] + 1 >= Interval["connect_attempt"]

ReconnectDue(el) == Due(el, "connect_attempt")

\* current_volume != last_volume, current_media != last_media,
\* current_weather != last_weather
\* variant: every polled value is sent
ChangedAlways(current, last) == TRUE
\* variant: only a value that is there is sent (if current and current != last)
ChangedToValue(current, last) == current /= None /\ current /= last

Changed(current, last) == current /= last

\* what the collaborators can return
Volumes == {30, 70}
MediaTitles == {<<65>>, <<66, 67>>}
\* get_system_volume(): a level, or None on an error or an unsupported platform
get_system_volume(sys) ==
    IF sys \in {"Darwin", "Windows", "Linux"}
    THEN {None} \cup {Some(v) : v \in Volumes}
    ELSE {None}
\* get_current_media(): a title, or None (always None on Windows and elsewhere)
get_current_media(sys) ==
    IF sys \in {"Darwin", "Linux"}
    THEN {None} \cup {Some(t) : t \in MediaTitles}
    ELSE {None}
WeatherStates == {0, 2}
WeatherPolls == {None} \cup {Some(w) : w \in WeatherStates}
\* datetime.now() and the --test-date override
NowDate == [year |-> 2025, month |-> 7, day |-> 20, hour |-> 14, minute |-> 0,
            second |-> 30]
TestDate == [year |-> 2025, month |-> 1, day |-> 1, hour |-> 23, minute |-> 0,
             second |-> 0]

NoPush == [Volume |-> None, Media |-> None, Weather |-> None]

\* current_media if current_media else ""
MediaText(current_media) == IF current_media = None THEN <<>> ELSE current_media[1]

\* history of the handle in use, kept until the first scheduler pass after the
\* connection ends: the kinds written successfully so far. phase is "first" while
\* every write succeeded and volume and weather were available, "checked" right
\* after the first pass ended that way, "later" otherwise.
Fresh == [phase |-> "first", kinds |-> {}]
Later == [phase |-> "later", kinds |-> {}]

Appended(log, log2) == SubSeq(log2, Len(log) + 1, Len(log2))

\* time since a device.write last failed: zero when one of the calls just made is
\* a failed write
FailAge(age, events) ==
    IF \E i \in 1..Len(events) : events[i].op = "write" /\ ~events[i].ok
    THEN 0 ELSE age

Track(h, events, dev, pass_done) ==
    IF dev = None \/ h.phase /= "first" THEN Later
    ELSE IF \E i \in 1..Len(events) :
               \/ events[i].op = "write" /\ ~events[i].ok
               \/ events[i].op = "poll" /\ events[i].kind /= "Media" /\ ~events[i].ok
         THEN Later
    ELSE [phase |-> IF pass_done THEN "checked" ELSE "first",
          kinds |-> h.kinds \cup {events[i].kind : i \in
                       {j \in 1..Len(events) : events[j].op = "write"}}]

(***************************************************************************)
(* try: device.close() except: pass; device = None; last_volume = None;    *)
(* last_media = None; last_weather = None; continue                        *)
(***************************************************************************)
\* variant: the weather state survives the disconnection (as the volume-only
\* monitor, which knows no weather, would leave it)
\* variant: the failure is only reported; the handle stays and the pass goes on
\* with the weather
DisconnectReportsOnly(log, close_ok) ==
    /\ tick_log' = log
    /\ pc' = "weather"
    /\ pushed' = pushed
    /\ UNCHANGED <<device, lastVars>>

\* variant: the handle is dropped only when close() returned
DisconnectIfClosed(log, close_ok) ==
    /\ device' = IF close_ok THEN None ELSE device
    /\ last_volume' = None
    /\ last_media' = None
    /\ last_weather' = None
    /\ pushed' = NoPush
    /\ tick_log' = log \o <<Close(close_ok)>>
    /\ pc' = "top"

\* variant: the volume last sent survives the disconnection
DisconnectKeepVolume(log, close_ok) ==
    /\ device' = None
    /\ last_volume' = last_volume
    /\ last_media' = None
    /\ last_weather' = None
    /\ pushed' = NoPush
    /\ tick_log' = log \o <<Close(close_ok)>>
    /\ pc' = "top"

\* variant: after the close the iteration goes on with the read
DisconnectThenRead(log, close_ok) ==
    /\ device' = None
    /\ last_volume' = None
    /\ last_media' = None
    /\ last_weather' = None
    /\ pushed' = NoPush
    /\ tick_log' = log \o <<Close(close_ok)>>
    /\ pc' = IF Len(log) < 6 THEN "read" ELSE "top"

\* variant: a close that raises is not caught, the exception leaves main()
DisconnectCloseRaises(log, close_ok) ==
    /\ device' = None
    /\ last_volume' = None
    /\ last_media' = None
    /\ last_weather' = None
    /\ pushed' = NoPush
    /\ tick_log' = log \o <<Close(close_ok)>>
    /\ pc' = IF close_ok THEN "top" ELSE "exit"

DisconnectKeepWeather(log, close_ok) ==
    /\ device' = None
    /\ last_volume' = None
    /\ last_media' = None
    /\ last_weather' = last_weather
    /\ pushed' = NoPush
    /\ tick_log' = log \o <<Close(close_ok)>>
    /\ pc' = "top"

Disconnect(log, close_ok) ==
    /\ device' = None
    /\ last_volume' = None
    /\ last_media' = None
    /\ last_weather' = None
    /\ pushed' = NoPush
    /\ tick_log' = log \o <<Close(close_ok)>>
    /\ pc' = "top"

(***************************************************************************)
(* The branches of the connected iteration that send nothing.              *)
(***************************************************************************)
\* except Exception: pass  (device.read or process_game_message raised)
\* variant: a read that raises ends the connection like a failed write
ReadRaisedDisconnects(log, close_ok) == Disconnect(log, close_ok)

ReadRaised(log, close_ok) ==
    /\ tick_log' = log
    /\ pc' = "volume"
    /\ UNCHANGED <<device, lastVars, pushed>>

\* if data and len(data) > 0: is false, nothing was pending
\* variant: an empty read is taken for a lost keyboard
NothingPendingDisconnects(log, close_ok) == Disconnect(log, close_ok)

\* variant: an empty read is followed by another read in the same iteration
NothingPendingReadsAgain(log, close_ok) ==
    /\ tick_log' = log
    /\ pc' = IF Len(log) < 4 THEN "read" ELSE "volume"
    /\ UNCHANGED <<device, lastVars, pushed>>

NothingPending(log, close_ok) ==
    /\ tick_log' = log
    /\ pc' = "volume"
    /\ UNCHANGED <<device, lastVars, pushed>>

\* if current_volume is not None / if current_weather is not None: is false
\* variant: a collaborator that has no value ends the connection
UnavailableDisconnects(log, next_pc) == Disconnect(log, TRUE)

Unavailable(log, next_pc) ==
    /\ tick_log' = log
    /\ pc' = next_pc
    /\ UNCHANGED <<device, lastVars, pushed>>

\* if not args.test_date and current_time - last_datetime_update >= DATETIME_UPDATE_INTERVAL
\* variant: the override is not looked at
DateTimeDueAnyway(td, el) == Due(el, "datetime_update")

DateTimeDue(td, el) == td = None /\ Due(el, "datetime_update")

(***************************************************************************)
(* device is None: too early for another attempt; sleep and continue       *)
(***************************************************************************)
WaitReconnect ==
    /\ pc = "top"
    /\ device = None
    /\ \E d \in 0..MaxStep :
        /\ ~ReconnectDue(Advance(elapsed, d))
        /\ elapsed' = Advance(elapsed, d)
        /\ since_attempt' = Min(since_attempt + d, reconnect_delay)
        /\ since_fail' = Min(since_fail + d, reconnect_delay)
    /\ tick_log' = <<>>
    /\ since_connect' = Later
    /\ last_call' = NoCall
    /\ UNCHANGED <<scores, store, next_seq, keptVars, lastVars, pc, device, pushed>>

(***************************************************************************)
(* device is None and the delay has passed: connect_to_keyboard()          *)
(***************************************************************************)
Reconnect ==
    /\ pc = "top"
    /\ device = None
    /\ \E d \in 0..MaxStep, found \in BOOLEAN, opened \in BOOLEAN :
        LET el == Advance(elapsed, d)
            waited == Min(since_attempt + d, reconnect_delay)
            connected == found /\ opened
            log == <<Ev("attempt", IF first_connection THEN "first" ELSE "reconnect",
                        <<waited>>, connected),
                     Ev("enumerate", "", <<>>, found)>>
                   \o (IF found THEN <<Ev("open", "", <<>>, opened)>> ELSE <<>>)
        IN /\ ReconnectDue(el)
           /\ first_connection' = (first_connection /\ ~connected)
           /\ since_attempt' = 0
           /\ since_fail' = Min(since_fail + d, reconnect_delay)
           /\ tick_log' = log
           /\ IF connected
              THEN /\ device' = Some("handle")
                   /\ elapsed' = [el EXCEPT !.connect_attempt = 0,
                                            !.connection_check = 0]
                   /\ pc' = "sync_volume"
              ELSE /\ device' = None
                   /\ elapsed' = [el EXCEPT !.connect_attempt = 0]
                   /\ pc' = "top"
    /\ pushed' = NoPush
    /\ since_connect' = IF device' = None THEN Later ELSE Fresh
    /\ last_call' = NoCall
    /\ UNCHANGED <<scores, store, next_seq, cfgVars, lastVars>>

(***************************************************************************)
(* Initial sync after (re)connect: volume                                  *)
(***************************************************************************)
SyncVolume ==
    /\ pc = "sync_volume"
    /\ \E current_volume \in get_system_volume(system), ok \in BOOLEAN, close_ok \in BOOLEAN :
        LET log == Append(tick_log, Poll("Volume", current_volume))
        IN IF current_volume /= None
           THEN LET sent == Append(log, Write("Volume",
                                              VolumePacket(current_volume[1]), ok))
                IN IF ok
                   THEN /\ last_volume' = current_volume
                        /\ pushed' = [pushed EXCEPT !.Volume = current_volume]
                        /\ tick_log' = sent
                        /\ pc' = "sync_media"
                        /\ UNCHANGED <<device, last_media, last_weather>>
                   ELSE Disconnect(sent, close_ok)
           ELSE /\ last_volume' = None
                /\ tick_log' = log
                /\ pc' = "sync_media"
                /\ UNCHANGED <<device, last_media, last_weather, pushed>>
    /\ UNCHANGED <<boardVars, keptVars, elapsed, since_attempt>>
    /\ since_connect' = Track(since_connect, Appended(tick_log, tick_log'), device', FALSE)
    /\ since_fail' = FailAge(since_fail, Appended(tick_log, tick_log'))

(***************************************************************************)
(* Initial sync: media. The result of send_media_update is not looked at.  *)
(***************************************************************************)
SyncMedia ==
    /\ pc = "sync_media"
    /\ \E current_media \in get_current_media(system), ok \in BOOLEAN :
        LET log == Append(tick_log, Poll("Media", current_media))
        IN IF current_media /= None
           THEN /\ tick_log' = Append(log, Write("Media",
                                                 MediaPacket(current_media[1]), ok))
                /\ last_media' = current_media
                /\ pushed' = IF ok THEN [pushed EXCEPT !.Media = current_media]
                             ELSE pushed
           ELSE /\ tick_log' = log
                /\ last_media' = None
                /\ pushed' = pushed
    /\ pc' = "sync_datetime"
    /\ UNCHANGED <<boardVars, keptVars, device, last_volume, last_weather, elapsed,
                   since_attempt>>
    /\ since_connect' = Track(since_connect, Appended(tick_log, tick_log'), device', FALSE)
    /\ since_fail' = FailAge(since_fail, Appended(tick_log, tick_log'))

(***************************************************************************)
(* Initial sync: date/time. A failed write is only reported.               *)
(***************************************************************************)
SyncDateTime ==
    /\ pc = "sync_datetime"
    /\ \E ok \in BOOLEAN :
        LET dt_to_send == IF test_date /= None THEN test_date[1] ELSE NowDate
        IN /\ tick_log' = Append(tick_log,
                                 Write("DateTime", DateTimePacket(dt_to_send), ok))
           /\ elapsed' = IF ok THEN [elapsed EXCEPT !.datetime_update = 0]
                         ELSE elapsed
    /\ pc' = "sync_weather"
    /\ UNCHANGED <<boardVars, keptVars, device, lastVars, pushed, since_attempt>>
    /\ since_connect' = Track(since_connect, Appended(tick_log, tick_log'), device', FALSE)
    /\ since_fail' = FailAge(since_fail, Appended(tick_log, tick_log'))

(***************************************************************************)
(* Initial sync: weather (if enabled), then sleep and continue             *)
(***************************************************************************)
SyncWeather ==
    /\ pc = "sync_weather"
    /\ IF weather_enabled
       THEN \E current_weather \in WeatherPolls, ok \in BOOLEAN :
            LET log == Append(tick_log, Poll("Weather", current_weather))
            IN IF current_weather /= None
               THEN /\ tick_log' = Append(log, Write("Weather",
                                            WeatherPacket(current_weather[1]), ok))
                    /\ last_weather' = IF ok THEN current_weather ELSE last_weather
                    /\ elapsed' = IF ok THEN [elapsed EXCEPT !.weather_check = 0]
                                  ELSE elapsed
                    /\ pushed' = IF ok THEN [pushed EXCEPT !.Weather = current_weather]
                                 ELSE pushed
               ELSE /\ tick_log' = log
                    /\ UNCHANGED <<last_weather, elapsed, pushed>>
       ELSE UNCHANGED <<tick_log, last_weather, elapsed, pushed>>
    /\ pc' = "top"
    /\ UNCHANGED <<boardVars, keptVars, device, last_volume, last_media, since_attempt>>
    /\ since_connect' = Track(since_connect, Appended(tick_log, tick_log'), device', FALSE)
    /\ since_fail' = FailAge(since_fail, Appended(tick_log, tick_log'))

(***************************************************************************)
(* device is held: the periodic is_keyboard_connected() check              *)
(***************************************************************************)
Probe ==
    /\ pc = "top"
    /\ device /= None
    /\ \E d \in 0..MaxStep, present \in BOOLEAN, close_ok \in BOOLEAN :
        LET el == Advance(elapsed, d)
        IN /\ since_attempt' = Min(since_attempt + d, reconnect_delay)
           /\ since_fail' = Min(since_fail + d, reconnect_delay)
           /\ IF Due(el, "connection_check")
              THEN /\ elapsed' = [el EXCEPT !.connection_check = 0]
                   /\ IF ~present
                      THEN Disconnect(<<Ev("enumerate", "", <<>>, FALSE)>>, close_ok)
                      ELSE /\ tick_log' = <<Ev("enumerate", "", <<>>, TRUE)>>
                           /\ pc' = "read"
                           /\ UNCHANGED <<device, lastVars, pushed>>
              ELSE /\ elapsed' = el
                   /\ tick_log' = <<>>
                   /\ pc' = "read"
                   /\ UNCHANGED <<device, lastVars, pushed>>
    /\ last_call' = NoCall
    /\ UNCHANGED <<scores, store, next_seq, keptVars>>
    /\ since_connect' = Track(since_connect, tick_log', device', FALSE)

(***************************************************************************)
(* device.read(HID_PACKET_SIZE, timeout_ms=10) and process_game_message    *)
(*   result: <<"error">> (read raises), <<"data", bytes>> (bytes may be    *)
(*   empty: nothing pending)                                               *)
(***************************************************************************)
IsNameSubmit(result) ==
    result[1] = "data" /\ Len(result[2]) > 0 /\ result[2][1] = MSG_NAME_SUBMIT

ReadStep(results) ==
    /\ pc = "read"
    /\ \E result \in results, write_ok \in BOOLEAN, outcome \in SaveOutcomes,
          close_ok \in BOOLEAN :
        /\ IsNameSubmit(result) => next_seq <= MaxInserts
        /\ IF result[1] = "error"
           THEN /\ ReadRaised(Append(tick_log, Ev("read", "", <<>>, FALSE)), close_ok)
                /\ UNCHANGED boardVars
           ELSE IF Len(result[2]) = 0
           THEN /\ NothingPending(Append(tick_log, Ev("read", "", <<>>, TRUE)), close_ok)
                /\ UNCHANGED boardVars
           ELSE LET data == result[2]
                    log == Append(tick_log, Ev("read", "", data, TRUE))
                    h == process_game_message(data, scores, store, next_seq, last_call,
                                              write_ok, outcome)
                    sent == log \o h.out
                IN /\ scores' = h.scores
                   /\ store' = h.store
                   /\ next_seq' = h.next_seq
                   /\ last_call' = h.last_call
                   /\ IF h.raised THEN ReadRaised(sent, close_ok)
                      ELSE IF ~h.ret THEN Disconnect(sent, close_ok)
                      ELSE /\ tick_log' = sent
                           /\ pc' = "volume"
                           /\ UNCHANGED <<device, lastVars, pushed>>
    /\ UNCHANGED <<keptVars, elapsed, since_attempt>>
    /\ since_connect' = Track(since_connect, Appended(tick_log, tick_log'), device', FALSE)
    /\ since_fail' = FailAge(since_fail, Appended(tick_log, tick_log'))

(***************************************************************************)
(* Monitor volume and send updates                                         *)
(***************************************************************************)
VolumeStep ==
    /\ pc = "volume"
    /\ \E current_volume \in get_system_volume(system), ok \in BOOLEAN, close_ok \in BOOLEAN :
        LET log == Append(tick_log, Poll("Volume", current_volume))
        IN IF current_volume = None THEN Unavailable(log, "media")
           ELSE IF Changed(current_volume, last_volume)
           THEN LET sent == Append(log, Write("Volume",
                                              VolumePacket(current_volume[1]), ok))
                IN IF ok
                   THEN /\ last_volume' = current_volume
                        /\ pushed' = [pushed EXCEPT !.Volume = current_volume]
                        /\ tick_log' = sent
                        /\ pc' = "media"
                        /\ UNCHANGED <<device, last_media, last_weather>>
                   ELSE Disconnect(sent, close_ok)
           ELSE /\ tick_log' = log
                /\ pc' = "media"
                /\ UNCHANGED <<device, lastVars, pushed>>
    /\ UNCHANGED <<boardVars, keptVars, elapsed, since_attempt>>
    /\ since_connect' = Track(since_connect, Appended(tick_log, tick_log'), device', FALSE)
    /\ since_fail' = FailAge(since_fail, Appended(tick_log, tick_log'))

(***************************************************************************)
(* Check media info periodically (every MEDIA_POLL_INTERVAL)               *)
(***************************************************************************)
MediaStep ==
    /\ pc = "media"
    /\ IF Due(elapsed, "media_check")
       THEN \E current_media \in get_current_media(system), ok \in BOOLEAN, close_ok \in BOOLEAN :
            LET log == Append(tick_log, Poll("Media", current_media))
            IN /\ elapsed' = [elapsed EXCEPT !.media_check = 0]
               /\ IF Changed(current_media, last_media)
                  THEN LET sent == Append(log, Write("Media",
                                       MediaPacket(MediaText(current_media)), ok))
                       IN IF ok
                          THEN /\ last_media' = current_media
                               /\ pushed' = [pushed EXCEPT
                                               !.Media = Some(MediaText(current_media))]
                               /\ tick_log' = sent
                               /\ pc' = "datetime"
                               /\ UNCHANGED <<device, last_volume, last_weather>>
                          ELSE Disconnect(sent, close_ok)
                  ELSE /\ tick_log' = log
                       /\ pc' = "datetime"
                       /\ UNCHANGED <<device, lastVars, pushed>>
       ELSE /\ pc' = "datetime"
            /\ UNCHANGED <<elapsed, tick_log, device, lastVars, pushed>>
    /\ UNCHANGED <<boardVars, keptVars, since_attempt>>
    /\ since_connect' = Track(since_connect, Appended(tick_log, tick_log'), device', FALSE)
    /\ since_fail' = FailAge(since_fail, Appended(tick_log, tick_log'))

(***************************************************************************)
(* Periodically send date/time updates (unless using test date)            *)
(***************************************************************************)
DateTimeStep ==
    /\ pc = "datetime"
    /\ IF DateTimeDue(test_date, elapsed)
       THEN \E ok \in BOOLEAN, close_ok \in BOOLEAN :
            LET sent == Append(tick_log, Write("DateTime", DateTimePacket(NowDate), ok))
            IN IF ok
               THEN /\ elapsed' = [elapsed EXCEPT !.datetime_update = 0]
                    /\ tick_log' = sent
                    /\ pc' = "weather"
                    /\ UNCHANGED <<device, lastVars, pushed>>
               ELSE /\ Disconnect(sent, close_ok)
                    /\ UNCHANGED elapsed
       ELSE /\ pc' = "weather"
            /\ UNCHANGED <<elapsed, tick_log, device, lastVars, pushed>>
    /\ UNCHANGED <<boardVars, keptVars, since_attempt>>
    /\ since_connect' = Track(since_connect, Appended(tick_log, tick_log'), device', FALSE)
    /\ since_fail' = FailAge(since_fail, Appended(tick_log, tick_log'))

(***************************************************************************)
(* Periodically check weather (if enabled), then sleep(POLL_INTERVAL)      *)
(***************************************************************************)
WeatherStep ==
    /\ pc = "weather"
    /\ IF weather_enabled /\ Due(elapsed, "weather_check")
       THEN \E current_weather \in WeatherPolls, ok \in BOOLEAN, close_ok \in BOOLEAN :
            LET log == Append(tick_log, Poll("Weather", current_weather))
            IN IF current_weather /= None
               THEN IF Changed(current_weather, last_weather)
                    THEN LET sent == Append(log, Write("Weather",
                                           WeatherPacket(current_weather[1]), ok))
                         IN IF ok
                            THEN /\ last_weather' = current_weather
                                 /\ elapsed' = [elapsed EXCEPT !.weather_check = 0]
                                 /\ pushed' = [pushed EXCEPT !.Weather = current_weather]
                                 /\ tick_log' = sent
                                 /\ pc' = "top"
                                 /\ UNCHANGED <<device, last_volume, last_media>>
                            ELSE /\ Disconnect(sent, close_ok)
                                 /\ UNCHANGED elapsed
                    ELSE /\ elapsed' = [elapsed EXCEPT !.weather_check = 0]
                         /\ tick_log' = log
                         /\ pc' = "top"
                         /\ UNCHANGED <<device, lastVars, pushed>>
               ELSE /\ elapsed' = [elapsed EXCEPT !.weather_check = 0]
                    /\ Unavailable(log, "top")
       ELSE /\ pc' = "top"
            /\ UNCHANGED <<elapsed, tick_log, device, lastVars, pushed>>
    /\ UNCHANGED <<boardVars, keptVars, since_attempt>>
    /\ since_connect' = Track(since_connect, Appended(tick_log, tick_log'), device', TRUE)
    /\ since_fail' = FailAge(since_fail, Appended(tick_log, tick_log'))

\* finally: if device is not None: try: device.close() except: pass
\* variant: the handle is left open
FinallyNoClose(dev, close_ok) == <<>>

Finally(dev, close_ok) == IF dev /= None THEN <<Close(close_ok)>> ELSE <<>>

(***************************************************************************)
(* KeyboardInterrupt: the finally clause closes a held handle, main()      *)
(* returns and its locals are gone                                         *)
(***************************************************************************)
Stop ==
    /\ pc /= "exit"
    /\ pc' = "exit"
    /\ \E close_ok \in BOOLEAN :
        tick_log' = <<Ev("interrupt", "", <<>>, TRUE)>> \o Finally(device, close_ok)
    /\ device' = None
    /\ first_connection' = TRUE
    /\ last_volume' = None
    /\ last_media' = None
    /\ last_weather' = None
    /\ elapsed' = Interval
    /\ pushed' = NoPush
    /\ since_attempt' = reconnect_delay
    /\ since_fail' = reconnect_delay
    /\ since_connect' = Later
    /\ UNCHANGED <<boardVars, cfgVars>>

(***************************************************************************)
(* The program: HighScoreManager() loads the file, then main() loops.      *)
(***************************************************************************)
\* a full table as a stored file: ten entries named "AAA", scores 30 and 20
FullFile == <<"ok", [i \in 1..TopN |-> [name |-> NameA,
                                       score |-> IF i <= 5 THEN 30 ELSE 20]]>>
SessionFiles == {FullFile}

\* what device.read returns in the session
SessionReads ==
    {<<"error">>, <<"data", <<>>>>, <<"data", ScoreSubmitFrame(30)>>,
     <<"data", ScoreSubmitFrame(10)>>}

Init ==
    /\ store \in SessionFiles
    /\ scores = load_scores(store)
    /\ next_seq = 1
    /\ last_call = NoCall
    /\ test_date \in {None, Some(TestDate)}
    /\ weather_enabled \in BOOLEAN
    /\ system \in {"Linux", "Other"}
    /\ pc = "top"
    /\ device = None
    /\ first_connection = TRUE
    /\ last_volume = None
    /\ last_media = None
    /\ last_weather = None
    /\ elapsed = Interval
    /\ tick_log = <<>>
    /\ pushed = NoPush
    /\ since_attempt = reconnect_delay
    /\ since_fail = reconnect_delay
    /\ since_connect = Later

Next ==
    \/ WaitReconnect
    \/ Reconnect
    \/ SyncVolume
    \/ SyncMedia
    \/ SyncDateTime
    \/ SyncWeather
    \/ Probe
    \/ ReadStep(SessionReads)
    \/ VolumeStep
    \/ MediaStep
    \/ DateTimeStep
    \/ WeatherStep
    \/ Stop

Spec == Init /\ [][Next]_vars

\* one more step of the while True loop
Tick ==
    \/ WaitReconnect
    \/ Reconnect
    \/ SyncVolume
    \/ SyncMedia
    \/ SyncDateTime
    \/ SyncWeather
    \/ Probe
    \/ ReadStep(SessionReads)
    \/ VolumeStep
    \/ MediaStep
    \/ DateTimeStep
    \/ WeatherStep

(***************************************************************************)
(* The game exchange on a quiet host: an unsupported platform (no volume,  *)
(* no media), --no-weather and --test-date, so that the loop only probes,  *)
(* reads and answers the keyboard's frames.                                *)
(***************************************************************************)
NineFile == <<"ok", [i \in 1..(TopN - 1) |-> [name |-> IF i % 2 = 1 THEN NameA ELSE NameB,
                                              score |-> IF i <= 4 THEN 30 ELSE 20]]>>
GameFiles == {<<"missing">>, NineFile, FullFile}

\* frames that are cut short, or carry a message type the handler does not know
OddFrames == {<<MSG_SCORE_SUBMIT, 0>>, <<MSG_NAME_SUBMIT, 65, 65>>,
              Packet(<<CMD_VOLUME_UPDATE, 50>>), Packet(<<>>)}

GameReads ==
    {<<"error">>, <<"data", <<>>>>}
    \cup {<<"data", ScoreSubmitFrame(s)>> : s \in ScoreValues}
    \cup {<<"data", NameSubmitFrame(NameA, 10)>>, <<"data", NameSubmitFrame(NameB, 30)>>}
    \cup {<<"data", f>> : f \in OddFrames}

InitGame ==
    /\ store \in GameFiles
    /\ scores = load_scores(store)
    /\ next_seq = 1
    /\ last_call = NoCall
    /\ test_date = Some(TestDate)
    /\ weather_enabled = FALSE
    /\ system = "Other"
    /\ pc = "top"
    /\ device = None
    /\ first_connection = TRUE
    /\ last_volume = None
    /\ last_media = None
    /\ last_weather = None
    /\ elapsed = Interval
    /\ tick_log = <<>>
    /\ pushed = NoPush
    /\ since_attempt = reconnect_delay
    /\ since_fail = reconnect_delay
    /\ since_connect = Later

NextGame ==
    \/ WaitReconnect
    \/ Reconnect
    \/ SyncVolume
    \/ SyncMedia
    \/ SyncDateTime
    \/ SyncWeather
    \/ Probe
    \/ ReadStep(GameReads)
    \/ VolumeStep
    \/ MediaStep
    \/ DateTimeStep
    \/ WeatherStep
    \/ Stop

SpecGame == InitGame /\ [][NextGame]_vars

(***************************************************************************)
(* The high score table on its own: HighScoreManager() on a stored file,   *)
(* then check_score and add_score calls with any name and score.           *)
(***************************************************************************)
\* a stored list of n entries: scores 30 down to position hi, 20 down to position
\* mid, 10 after; names alternate
ShapedList(n, hi, mid) ==
    [i \in 1..n |-> [name |-> IF i % 2 = 1 THEN NameA ELSE NameB,
                     score |-> IF i <= hi THEN 30 ELSE IF i <= mid THEN 20 ELSE 10]]

Reversed(list) == [i \in 1..Len(list) |-> list[Len(list) + 1 - i]]

BoardLengths == (0..2) \cup ((TopN - 1)..(TopN + MaxExtra))

BoardFiles ==
    {<<"missing">>, <<"bad">>}
    \cup {<<"ok", ShapedList(n, hi, mid)>> :
            n \in BoardLengths, hi \in 0..(TopN + MaxExtra), mid \in 0..(TopN + MaxExtra)}
    \cup {<<"ok", Reversed(ShapedList(n, 1, mid))>> :
            n \in BoardLengths, mid \in 0..(TopN + MaxExtra)}

AddScoreCall ==
    /\ next_seq <= MaxInserts
    /\ \E name \in Names, score \in ScoreValues :
        LET e == [name |-> name, score |-> score, seq |-> next_seq]
        IN /\ scores' = AddKept(scores, e)
           /\ store' = save_scores(AddSaved(scores, e), store, "saved")
           /\ last_call' = [op |-> "add", name |-> name, score |-> score,
                            seq |-> next_seq, ret |-> AddReturn(scores, e),
                            before |-> scores]
    /\ next_seq' = next_seq + 1
    /\ UNCHANGED <<keptVars, pc, device, lastVars, elapsed, tick_log, pushed,
                   since_attempt, since_connect, since_fail>>

CheckScoreCall ==
    /\ \E score \in ScoreValues :
        last_call' = [op |-> "check", name |-> <<>>, score |-> score, seq |-> 0,
                      ret |-> check_score(scores, score), before |-> scores]
    /\ UNCHANGED <<scores, store, next_seq, keptVars, pc, device, lastVars, elapsed,
                   tick_log, pushed, since_attempt, since_connect, since_fail>>

InitBoard ==
    /\ store \in BoardFiles
    /\ scores = load_scores(store)
    /\ next_seq = 1
    /\ last_call = NoCall
    /\ test_date = None
    /\ weather_enabled = TRUE
    /\ system = "Linux"
    /\ pc = "top"
    /\ device = None
    /\ first_connection = TRUE
    /\ last_volume = None
    /\ last_media = None
    /\ last_weather = None
    /\ elapsed = Interval
    /\ tick_log = <<>>
    /\ pushed = NoPush
    /\ since_attempt = reconnect_delay
    /\ since_fail = reconnect_delay
    /\ since_connect = Later

NextBoard ==
    \/ AddScoreCall
    \/ CheckScoreCall

SpecBoard == InitBoard /\ [][NextBoard]_vars

(***************************************************************************)
(* Properties of the high score table (checked under SpecBoard).           *)
(***************************************************************************)

\* C1: after any sequence of add_score calls from any loaded table, the table has
\* at most 10 entries, is sorted by score descending, and entries with equal
\* scores are in submission order (the earlier submission has the better rank).
C1_TableSortedStable ==
    /\ Len(scores) <= 10
    /\ \A i, j \in 1..Len(scores) :
          i < j => /\ scores[i].score >= scores[j].score
                   /\ scores[i].score = scores[j].score
                         => scores[i].seq < scores[j].seq

\* an insertion into a full table that ties with kept entries and drops one
C1_Witness ==
    /\ last_call.op = "add"
    /\ Len(last_call.before) = 10
    /\ Len(scores) = 10
    /\ \E i \in 1..10 : scores[i].seq = last_call.seq
    /\ \E i \in 1..10 : scores[i].seq /= last_call.seq
                        /\ scores[i].score = last_call.score

\* C9: check_score returns the table length when the table has fewer than 10
\* entries; on a full table it returns the 0-based index of the first entry whose
\* score is strictly lower than the submitted one when the score strictly exceeds
\* the 10th-place score, and -1 (none) otherwise.
C9_CheckRank ==
    last_call.op = "check" =>
        LET t == last_call.before
            s == last_call.score
            r == last_call.ret
        IN IF Len(t) < 10 THEN r = Len(t)
           ELSE IF s > t[10].score
                THEN /\ r \in 0..9
                     /\ t[r + 1].score < s
                     /\ \A j \in 1..r : t[j].score >= s
                ELSE r = -1

\* a check on a full table that lands strictly inside the table
C9_Witness ==
    /\ last_call.op = "check"
    /\ Len(last_call.before) = 10
    /\ last_call.ret >= 1
    /\ last_call.ret <= 8

\* C10: add_score returns the 0-based index of the just-inserted entry in the
\* resulting table, and -1 (none) exactly when that entry is not among the
\* entries kept.
C10_InsertReturnsIndexOfNewEntry ==
    last_call.op = "add" =>
        LET at == {i \in 1..Len(scores) : scores[i].seq = last_call.seq}
        IN IF at = {} THEN last_call.ret = -1
           ELSE \A i \in at : last_call.ret = i - 1

(***************************************************************************)
(* Properties of the session (checked under Spec).                         *)
(***************************************************************************)
IsWrite(ev) == ev.op = "write"
TelemetryKinds == {"Volume", "Media", "DateTime", "Weather"}
GameKinds == {"EnterName", "ShowScores"}

\* C2: when a write of any kind fails while a handle is held, the session is
\* disconnected (handle closed and dropped) before any further write is attempted.
C2_FailedWriteDisconnects ==
    \A i \in 1..Len(tick_log) :
        (IsWrite(tick_log[i]) /\ ~tick_log[i].ok) =>
            /\ i < Len(tick_log)
            /\ tick_log[i + 1].op = "close"
            /\ \A j \in (i + 1)..Len(tick_log) : ~IsWrite(tick_log[j])

\* C3: after every transition to Connected, with the collaborators available,
\* weather enabled and every write succeeding, a frame of each of the four
\* telemetry kinds has been pushed by the end of the next scheduler pass.
C3_FullSyncAfterConnect ==
    (since_connect.phase = "checked" /\ weather_enabled) =>
        TelemetryKinds \subseteq since_connect.kinds

\* C4: connect_to_keyboard is called only when at least the backoff interval
\* (2 time units) has passed since the previous call.
C4_ReconnectThrottled ==
    \A i \in 1..Len(tick_log) :
        tick_log[i].op = "attempt" => tick_log[i].data[1] >= 2

\* a reconnection attempt (after an earlier connection) that failed
C4_Witness ==
    /\ Len(tick_log) >= 1
    /\ tick_log[1].op = "attempt"
    /\ tick_log[1].kind = "reconnect"
    /\ ~tick_log[1].ok

\* C5: when the liveness probe of a connected session finds the keyboard gone,
\* in that same iteration close is called, the handle is dropped, the last-known
\* volume, media and weather are discarded, and nothing is read or written.
C5_ProbeLossDisconnects ==
    (Len(tick_log) >= 1 /\ tick_log[1].op = "enumerate" /\ ~tick_log[1].ok) =>
        /\ Len(tick_log) = 2
        /\ tick_log[2].op = "close"
        /\ device = None
        /\ last_volume = None
        /\ last_media = None
        /\ last_weather = None

\* a failed probe on a handle that had been in use
C5_Witness ==
    /\ Len(tick_log) = 2
    /\ tick_log[1].op = "enumerate"
    /\ ~tick_log[1].ok
    /\ tick_log[2].op = "close"
    /\ device = None
    /\ ~first_connection

\* the value a poll event stands for: nothing playing is the empty text
Polled(ev) == IF ev.kind = "Media" THEN Some(MediaText(ev.data)) ELSE ev.data

\* C6: a poll of volume, media or weather that returns the value last pushed
\* successfully on this handle produces no write of that kind, and no poll
\* produces more than one write.
C6_NoRepeatedPush ==
    [][LET new == Appended(tick_log, tick_log')
       IN (Len(tick_log') > Len(tick_log) /\ new[1].op = "poll") =>
            /\ Cardinality({j \in 1..Len(new) : IsWrite(new[j])}) <= 1
            /\ (pushed[new[1].kind] /= None /\ Polled(new[1]) = pushed[new[1].kind])
                  => \A j \in 1..Len(new) : ~IsWrite(new[j])]_vars

\* the volume was polled, equals the value pushed before, and nothing was written
C6_Witness ==
    /\ pc = "media"
    /\ tick_log[Len(tick_log)].op = "poll"
    /\ tick_log[Len(tick_log)].kind = "Volume"
    /\ pushed.Volume /= None
    /\ tick_log[Len(tick_log)].data = pushed.Volume

(***************************************************************************)
(* Properties of the game exchange (checked under SpecGame).               *)
(***************************************************************************)
IsGameWrite(ev) == ev.op = "write" /\ ev.kind \in GameKinds

\* the 33 bytes of an ENTER_NAME report: report ID, 0x11, the rank, zeros
EnterNameReport(rank) ==
    [i \in 1..33 |-> IF i = 2 THEN 17 ELSE IF i = 3 THEN rank ELSE 0]

\* C7: on a ScoreSubmit frame exactly one response is written: EnterName with
\* check_score(score) when that is a rank, else ShowScores of the current table.
C7_ScoreSubmitResponse ==
    \A i \in 1..Len(tick_log) :
        LET data == tick_log[i].data
        IN (tick_log[i].op = "read" /\ tick_log[i].ok /\ Len(data) >= 3
            /\ data[1] = 16) =>
            LET rank == check_score(scores, data[2] * 256 + data[3])
            IN /\ {j \in 1..Len(tick_log) : IsGameWrite(tick_log[j])} = {i + 1}
               /\ tick_log[i + 1].data =
                     IF rank >= 0 THEN EnterNameReport(rank)
                     ELSE Report(ShowScoresPacket(scores))

\* a submitted score that does not place is answered with the table
C7_Witness ==
    /\ Len(tick_log) >= 2
    /\ tick_log[Len(tick_log) - 1].op = "read"
    /\ tick_log[Len(tick_log) - 1].data = ScoreSubmitFrame(10)
    /\ tick_log[Len(tick_log)].kind = "ShowScores"
    /\ tick_log[Len(tick_log)].ok
    /\ Len(scores) = 10

Range(list) == {list[i] : i \in 1..Len(list)}

\* C8: on a NameSubmit frame the pair is inserted, the table is persisted, and
\* exactly one ShowScores frame built from the table after the insertion is
\* written, also when the new entry fell outside the top 10.
C8_NameSubmitResponse ==
    \A i \in 1..Len(tick_log) :
        LET data == tick_log[i].data
        IN (tick_log[i].op = "read" /\ tick_log[i].ok /\ Len(data) >= 6
            /\ data[1] = 19) =>
            LET e == [name |-> <<data[2], data[3], data[4]>>,
                      score |-> data[5] * 256 + data[6], seq |-> last_call.seq]
                before == last_call.before
            IN /\ last_call.op = "add"
               /\ last_call.name = e.name /\ last_call.score = e.score
               /\ Range(scores) \subseteq Range(before) \cup {e}
               /\ Len(scores) = Min(Len(before) + 1, 10)
               /\ \A x \in (Range(before) \cup {e}) \ Range(scores) :
                     \A y \in Range(scores) : y.score >= x.score
               /\ tick_log[i + 1].op = "save"
               /\ tick_log[i + 1].ok => store = <<"ok", PlainList(scores)>>
               /\ {j \in 1..Len(tick_log) : IsGameWrite(tick_log[j])} = {i + 2}
               /\ tick_log[i + 2].kind = "ShowScores"
               /\ tick_log[i + 2].data = Report(ShowScoresPacket(scores))

\* a submitted name whose entry fell outside the top 10, answered with the table
C8_Witness ==
    /\ last_call.op = "add"
    /\ Len(last_call.before) = 10
    /\ \A i \in 1..Len(scores) : scores[i].seq /= last_call.seq
    /\ Len(tick_log) >= 3
    /\ tick_log[Len(tick_log)].kind = "ShowScores"
    /\ tick_log[Len(tick_log) - 1].op = "save"

(***************************************************************************)
(* check_score and add_score together (checked under SpecBoard).           *)
(***************************************************************************)
\* C11: for every table and scores s <= t, if check_score(s) returns a rank r,
\* add_score(name, t) called right after returns a rank (not -1) that is <= r.
C11_CheckThenInsertNoWorse ==
    last_call.op = "add" =>
        \A s \in ScoreValues :
            LET r == check_score(last_call.before, s)
            IN (s <= last_call.score /\ r >= 0) =>
                  /\ last_call.ret >= 0
                  /\ last_call.ret <= r

\* a full table, a qualifying score checked, a strictly higher score inserted
C11_Witness ==
    /\ last_call.op = "add"
    /\ Len(last_call.before) = 10
    /\ \E s \in ScoreValues :
          /\ s < last_call.score
          /\ check_score(last_call.before, s) >= 1
    /\ last_call.ret >= 0

\* C12: the rank check_score(s) returns is the rank add_score(name, s) returns when
\* called right after, for every table.
C12_OfferedRankIsLandingRank ==
    last_call.op = "add" =>
        LET r == check_score(last_call.before, last_call.score)
        IN r >= 0 => last_call.ret = r

\* the entries of the table other than the one just inserted, in table order
Others(table, seq) == SelectSeq(table, LAMBDA e : e.seq /= seq)

\* C13: inserting into a full table a score above the 10th-place score evicts
\* exactly the entry in 10th place; the other nine stay, in their previous order.
C13_EvictsTenthPlace ==
    (/\ last_call.op = "add"
     /\ Len(last_call.before) = 10
     /\ last_call.score > last_call.before[10].score) =>
        /\ Len(scores) = 10
        /\ Others(scores, last_call.seq) = SubSeq(last_call.before, 1, 9)

\* such an insertion that landed strictly inside the table
C13_Witness ==
    /\ last_call.op = "add"
    /\ Len(last_call.before) = 10
    /\ last_call.score > last_call.before[10].score
    /\ \E i \in 2..9 : scores[i].seq = last_call.seq

C15_EmptyReadKeepsSession ==
    [][(/\ pc = "read"
        /\ Len(tick_log') > Len(tick_log)
        /\ tick_log'[Len(tick_log) + 1] = Ev("read", "", <<>>, TRUE)) =>
           /\ Len(tick_log') = Len(tick_log) + 1
           /\ device' = device
           /\ device' /= None
           /\ lastVars' = lastVars
           /\ boardVars' = boardVars
           /\ pc' = "volume"]_vars

\* nothing was pending on a handle with a volume pushed on it
C15_Witness ==
    /\ pc = "volume"
    /\ device /= None
    /\ Len(tick_log) >= 1
    /\ tick_log[Len(tick_log)] = Ev("read", "", <<>>, TRUE)
    /\ last_volume /= None

\* C16: a failed write leaves the session disconnected with the handle closed,
\* and no write is attempted while less than the backoff interval (2 time units)
\* has passed since a write failed.
C16_NoWriteDuringBackoff ==
    [][(pc /= "top" /\ Len(tick_log') > Len(tick_log)) =>
          LET new == Appended(tick_log, tick_log')
          IN /\ (\E i \in 1..Len(new) : IsWrite(new[i]) /\ ~new[i].ok) =>
                    /\ device' = None
                    /\ new[Len(new)].op = "close"
             /\ (\E i \in 1..Len(new) : IsWrite(new[i])) =>
                    since_fail >= reconnect_delay]_vars

C18_FailedWeatherPollRestartsTimer ==
    (/\ Len(tick_log) >= 1
     /\ tick_log[Len(tick_log)] = Poll("Weather", None)) =>
        elapsed.weather_check = 0

\* C19: a media poll that finds nothing playing when a title was last pushed
\* writes one Media frame with the empty text; when the empty text was last
\* pushed it writes nothing.
C19_PlaybackStoppedPushedOnce ==
    [][(/\ pc = "media"
        /\ Len(tick_log') > Len(tick_log)
        /\ tick_log'[Len(tick_log) + 1] = Poll("Media", None)) =>
          LET new == Appended(tick_log, tick_log')
              writes == {i \in 1..Len(new) : IsWrite(new[i])}
          IN /\ (pushed.Media /= None /\ pushed.Media /= Some(<<>>)) =>
                    /\ writes = {2}
                    /\ new[2].kind = "Media"
                    /\ new[2].data = Report(MediaPacket(<<>>))
                    /\ new[2].ok => pushed'.Media = Some(<<>>)
             /\ pushed.Media = Some(<<>>) => writes = {}]_vars

\* playback stopped after a title was pushed, and the empty text went out
C19_Witness ==
    /\ pc = "datetime"
    /\ Len(tick_log) >= 2
    /\ tick_log[Len(tick_log) - 1] = Poll("Media", None)
    /\ tick_log[Len(tick_log)] = Write("Media", MediaPacket(<<>>), TRUE)
    /\ pushed.Media = Some(<<>>)
    /\ last_media = None

\* C20: a volume or weather poll that returns nothing writes no frame, and the
\* handle (still held, not closed) and the last values stay as they were.
C20_UnavailableSkipsPush ==
    [][(/\ pc /= "top"
        /\ Len(tick_log') > Len(tick_log)
        /\ tick_log'[Len(tick_log) + 1].op = "poll"
        /\ tick_log'[Len(tick_log) + 1].kind \in {"Volume", "Weather"}
        /\ ~tick_log'[Len(tick_log) + 1].ok) =>
           /\ Len(tick_log') = Len(tick_log) + 1
           /\ device' = device
           /\ device' /= None
           /\ lastVars' = lastVars]_vars

\* the periodic weather poll returned nothing while a weather state was known
C20_Witness ==
    /\ pc = "top"
    /\ device /= None
    /\ Len(tick_log) >= 2
    /\ tick_log[1].op /= "attempt"
    /\ tick_log[Len(tick_log)] = Poll("Weather", None)
    /\ last_weather /= None

(***************************************************************************)
(* The stored file (checked under SpecGame and SpecBoard).                 *)
(***************************************************************************)
\* C21: a name submission whose save succeeds leaves the file holding exactly the
\* table in memory (same entries, same order), also when the new entry was cut;
\* handling anything else (a score submission and its check_score) leaves the
\* file as it was.
C21_StoreIsWholeTable ==
    [][(pc = "read" /\ Len(tick_log') > Len(tick_log)) =>
          LET new == Appended(tick_log, tick_log')
          IN /\ (\E i \in 1..Len(new) : new[i].op = "save" /\ new[i].ok) =>
                    store' = <<"ok", PlainList(scores')>>
             /\ (\A i \in 1..Len(new) : new[i].op /= "save") =>
                    store' = store]_vars

\* the submitted entry was cut from a full table and the table was saved
C21_Witness ==
    /\ last_call.op = "add"
    /\ Len(last_call.before) = 10
    /\ \A i \in 1..Len(scores) : scores[i].seq /= last_call.seq
    /\ \E i \in 1..Len(tick_log) : tick_log[i].op = "save" /\ tick_log[i].ok
    /\ store = <<"ok", PlainList(scores)>>

\* C22: when save_scores fails during a name submission the table in memory is
\* still updated, add_score still returns the rank of a kept entry, the ShowScores
\* answer shows the updated table, and the handle is kept.
C22_SaveFailureKeepsGoing ==
    [][(/\ pc = "read"
        /\ Len(tick_log') > Len(tick_log) + 1
        /\ tick_log'[Len(tick_log) + 2].op = "save"
        /\ ~tick_log'[Len(tick_log) + 2].ok) =>
          LET new == Appended(tick_log, tick_log')
              data == new[1].data
              e == [name |-> <<data[2], data[3], data[4]>>,
                    score |-> data[5] * 256 + data[6], seq |-> next_seq]
          IN /\ Len(scores') = Min(Len(scores) + 1, 10)
             /\ Range(scores') \subseteq Range(scores) \cup {e}
             /\ (Len(scores) < 10 \/ e.score > scores[10].score) =>
                    /\ e \in Range(scores')
                    /\ last_call'.ret \in 0..9
             /\ {i \in 1..Len(new) : IsWrite(new[i])} = {3}
             /\ new[3].kind = "ShowScores"
             /\ new[3].data = Report(ShowScoresPacket(scores'))
             /\ new[3].ok => /\ device' = device
                             /\ device' /= None
                             /\ pc' = "volume"]_vars

\* the save failed, the entry is in the table, the table was sent, the file lags
C22_Witness ==
    /\ pc = "volume"
    /\ device /= None
    /\ last_call.op = "add"
    /\ \E i \in 1..Len(scores) : scores[i].seq = last_call.seq
    /\ Len(tick_log) >= 2
    /\ tick_log[Len(tick_log) - 1].op = "save"
    /\ ~tick_log[Len(tick_log) - 1].ok
    /\ tick_log[Len(tick_log)] = Write("ShowScores", ShowScoresPacket(scores), TRUE)
    /\ store /= <<"ok", PlainList(scores)>>

\* C23: a missing, corrupt or unreadable file loads as the empty table; a readable
\* file loads as its entries sorted by score descending (equal scores in file
\* order) and cut to 10.
C23_LoadedTable ==
    next_seq = 1 =>
        IF store[1] /= "ok" THEN scores = <<>>
        ELSE LET file == store[2]
                 at(i) == scores[i].seq + Len(file)
                 kept == {at(i) : i \in 1..Len(scores)}
             IN /\ Len(scores) = Min(Len(file), 10)
                /\ \A i \in 1..Len(scores) :
                      /\ at(i) \in 1..Len(file)
                      /\ Plain(scores[i]) = file[at(i)]
                /\ \A i, j \in 1..Len(scores) :
                      i < j => /\ scores[i].score >= scores[j].score
                               /\ scores[i].score = scores[j].score => at(i) < at(j)
                /\ \A k \in (1..Len(file)) \ kept :
                      \A i \in 1..Len(scores) : scores[i].score >= file[k].score

\* a file of more than ten entries that is not in order
C23_Witness ==
    /\ next_seq = 1
    /\ store[1] = "ok"
    /\ Len(store[2]) > 10
    /\ \E k \in 1..(Len(store[2]) - 1) : store[2][k].score < store[2][k + 1].score
    /\ Len(scores) = 10

(***************************************************************************)
(* Frames that are not a score or name submission (checked under SpecGame) *)
(***************************************************************************)
\* a frame process_game_message has no answer for: empty, cut short, other type
Malformed(data) ==
    \/ Len(data) = 0
    \/ data[1] = MSG_SCORE_SUBMIT /\ Len(data) < 3
    \/ data[1] = MSG_NAME_SUBMIT /\ Len(data) < 6
    \/ data[1] \notin {MSG_SCORE_SUBMIT, MSG_NAME_SUBMIT}

\* C26: a frame that is empty, cut short or of another type is passed over:
\* nothing is written, the table and the file are unchanged, the handle is kept.
C26_MalformedFrameIgnored ==
    [][(/\ pc = "read"
        /\ Len(tick_log') > Len(tick_log)
        /\ tick_log'[Len(tick_log) + 1].op = "read"
        /\ tick_log'[Len(tick_log) + 1].ok
        /\ Malformed(tick_log'[Len(tick_log) + 1].data)) =>
           /\ Len(tick_log') = Len(tick_log) + 1
           /\ scores' = scores
           /\ store' = store
           /\ device' = device
           /\ device' /= None
           /\ pc' = "volume"]_vars

\* a frame of another type was read from a held handle
C26_Witness ==
    /\ pc = "volume"
    /\ device /= None
    /\ Len(tick_log) >= 1
    /\ tick_log[Len(tick_log)] = Ev("read", "", Packet(<<CMD_VOLUME_UPDATE, 50>>), TRUE)

(***************************************************************************)
(* The end of the loop (checked under Spec).                               *)
(***************************************************************************)
\* C24: whatever open, write, read, close, the collaborators or the file did,
\* the loop can take its next step; main() is left only by the interrupt.
C24_OnlyInterruptEndsLoop ==
    IF pc = "exit"
    THEN Len(tick_log) >= 1 /\ tick_log[1].op = "interrupt"
    ELSE ENABLED Tick

\* a write failed and the close after it failed too, and the loop is at its top
C24_Witness ==
    /\ pc = "top"
    /\ Len(tick_log) >= 2
    /\ tick_log[Len(tick_log)] = Close(FALSE)
    /\ IsWrite(tick_log[Len(tick_log) - 1])
    /\ ~tick_log[Len(tick_log) - 1].ok

\* C25: on the interrupt the loop exits; a handle held at that moment is closed
\* first (also when close fails), and without a handle nothing is closed.
C25_InterruptClosesHandle ==
    [][(pc /= "exit" /\ pc' = "exit") =>
          /\ tick_log'[1].op = "interrupt"
          /\ device' = None
          /\ IF device /= None
             THEN Len(tick_log') = 2 /\ tick_log'[2].op = "close"
             ELSE Len(tick_log') = 1]_vars

\* the interrupt came while a handle was held, and closing it failed
C25_Witness ==
    /\ pc = "exit"
    /\ tick_log = <<Ev("interrupt", "", <<>>, TRUE), Close(FALSE)>>

(***************************************************************************)
(* The wire format on its own: the send_* functions and                    *)
(* process_game_message called on an open handle, with any table, text,    *)
(* level, date and frame.                                                  *)
(***************************************************************************)
\* n times the letter 'A'
RECURSIVE Letters(_)
Letters(n) == IF n = 0 THEN <<>> ELSE <<65>> \o Letters(n - 1)

\* titles around the 30 byte limit: letters, then one of 'A', e-acute, the euro
\* sign or an emoji (1, 2, 3 and 4 bytes in UTF-8)
CodecTexts ==
    {<<>>, <<65>>, <<233>>}
    \cup {Letters(n) \o <<c>> : n \in 28..30, c \in {65, 233, 8364, 128512}}

\* stored tables of n entries, best first: a score of 70000 and one of 65536, then
\* 300 - i; names of one, three and four characters
CodecList(n) ==
    [i \in 1..n |-> [name |-> IF i % 3 = 1 THEN <<65>>
                              ELSE IF i % 3 = 2 THEN NameA ELSE <<67, 68, 69, 70>>,
                     score |-> IF i = 1 THEN 70000
                               ELSE IF i = 2 THEN 65536 ELSE 300 - i]]

CodecFiles == {<<"missing">>} \cup {<<"ok", CodecList(n)>> : n \in {5, 6, 10}}

\* names with the bytes 0, 32, 128 and 255; scores with 0 and 255 in either byte
CodecSubmissions ==
    {<<<<0, 0, 0>>, 0>>, <<<<255, 128, 0>>, 65535>>, <<<<65, 32, 255>>, 256>>,
     <<NameA, 255>>}
CodecFrames ==
    {NameSubmitFrame(p[1], p[2]) : p \in CodecSubmissions}
    \cup {ScoreSubmitFrame(score) : score \in {0, 65535}}

SendVolumeCall ==
    /\ \E volume \in {0, 50, 100}, ok \in BOOLEAN :
        tick_log' = <<Write("Volume", VolumePacket(volume), ok)>>
    /\ UNCHANGED <<boardVars, keptVars, pc, device, lastVars, elapsed, pushed,
                   since_attempt, since_connect, since_fail>>

SendMediaCall ==
    /\ \E text \in CodecTexts, ok \in BOOLEAN :
        LET current_media == IF text = <<>> THEN None ELSE Some(text)
        IN tick_log' = <<Poll("Media", current_media),
                         Write("Media", MediaPacket(MediaText(current_media)), ok)>>
    /\ UNCHANGED <<boardVars, keptVars, pc, device, lastVars, elapsed, pushed,
                   since_attempt, since_connect, since_fail>>

SendDateTimeCall ==
    /\ \E now \in {NowDate, TestDate}, ok \in BOOLEAN :
        tick_log' = <<Write("DateTime", DateTimePacket(now), ok)>>
    /\ UNCHANGED <<boardVars, keptVars, pc, device, lastVars, elapsed, pushed,
                   since_attempt, since_connect, since_fail>>

SendWeatherCall ==
    /\ \E weather_state \in WeatherStates, ok \in BOOLEAN :
        tick_log' = <<Write("Weather", WeatherPacket(weather_state), ok)>>
    /\ UNCHANGED <<boardVars, keptVars, pc, device, lastVars, elapsed, pushed,
                   since_attempt, since_connect, since_fail>>

GameMessageCall ==
    /\ \E data \in CodecFrames, write_ok \in BOOLEAN :
        /\ data[1] = MSG_NAME_SUBMIT => next_seq <= MaxInserts
        /\ LET h == process_game_message(data, scores, store, next_seq, last_call,
                                         write_ok, "saved")
           IN /\ scores' = h.scores
              /\ store' = h.store
              /\ next_seq' = h.next_seq
              /\ last_call' = h.last_call
              /\ tick_log' = <<Ev("read", "", data, TRUE)>> \o h.out
    /\ UNCHANGED <<keptVars, pc, device, lastVars, elapsed, pushed,
                   since_attempt, since_connect, since_fail>>

InitCodec ==
    /\ store \in CodecFiles
    /\ scores = load_scores(store)
    /\ next_seq = 1
    /\ last_call = NoCall
    /\ test_date = None
    /\ weather_enabled = TRUE
    /\ system = "Linux"
    /\ pc = "top"
    /\ device = Some("handle")
    /\ first_connection = FALSE
    /\ last_volume = None
    /\ last_media = None
    /\ last_weather = None
    /\ elapsed = Interval
    /\ tick_log = <<>>
    /\ pushed = NoPush
    /\ since_attempt = reconnect_delay
    /\ since_fail = reconnect_delay
    /\ since_connect = Later

NextCodec ==
    \/ SendVolumeCall
    \/ SendMediaCall
    \/ SendDateTimeCall
    \/ SendWeatherCall
    \/ GameMessageCall

SpecCodec == InitCodec /\ [][NextCodec]_vars

(***************************************************************************)
(* Properties of the wire format (checked under SpecCodec).                *)
(***************************************************************************)
\* the ShowScores reports written in this call
ShowScoresReports ==
    {tick_log[i].data : i \in {j \in 1..Len(tick_log) :
                                 IsWrite(tick_log[j]) /\ tick_log[j].kind = "ShowScores"}}

\* number of groups in a ShowScores frame for a table of n entries
Groups(n) == IF n < 6 THEN n ELSE 6

\* C27: a ShowScores frame carries the first min(6, n) entries of the table in rank
\* order, each as 3 name bytes and the score as big-endian 16 bits, a score above
\* 65535 as 65535; entries 7 to 10 are not sent and all remaining bytes are zero.
C27_ShowScoresLayout ==
    \A report \in ShowScoresReports :
        /\ \A i \in 1..Groups(Len(scores)) :
            LET at == 2 + 1 + 5 * (i - 1)
                name == scores[i].name
                score == scores[i].score
            IN /\ \A k \in 1..3 :
                    report[at + k - 1] = IF k <= Len(name) THEN name[k] ELSE 32
               /\ IF score > 65535
                  THEN report[at + 3] = 255 /\ report[at + 4] = 255
                  ELSE report[at + 3] * 256 + report[at + 4] = score
        /\ \A b \in (2 + 1 + 5 * Groups(Len(scores)))..Len(report) : report[b] = 0

\* a full table with scores above 65535 on top was sent
C27_Witness ==
    /\ ShowScoresReports /= {}
    /\ Len(scores) = 10
    /\ scores[1].score > 65535

\* the text polled and the Media reports written for it in this call
MediaReports ==
    {<<MediaText(tick_log[i - 1].data), tick_log[i].data>> :
        i \in {j \in 2..Len(tick_log) :
                 /\ IsWrite(tick_log[j]) /\ tick_log[j].kind = "Media"
                 /\ tick_log[j - 1].op = "poll" /\ tick_log[j - 1].kind = "Media"}}

\* C28: the text payload of a Media frame is at most 30 UTF-8 bytes and a zero byte,
\* and it ends on a code point boundary of the text: it is the encoding of the
\* first k characters of the text, for some k.
C28_MediaCutOnBoundary ==
    \A m \in MediaReports :
        \E k \in 0..Len(m[1]) :
            LET payload == Utf8(Take(m[1], k))
            IN /\ Len(payload) <= 30
               /\ \A j \in 1..Len(payload) : m[2][2 + j] = payload[j]
               /\ m[2][2 + Len(payload) + 1] = 0

\* C29: the name and score bytes of a NameSubmit frame come back, byte for byte, in
\* the group of the ShowScores frame at the rank where the entry landed, when that
\* rank is among the first 6.
C29_NameSubmitRoundTrip ==
    (/\ Len(tick_log) >= 1
     /\ tick_log[1].op = "read"
     /\ tick_log[1].data[1] = MSG_NAME_SUBMIT)
    => \A report \in ShowScoresReports :
         \A r \in 1..Groups(Len(scores)) :
            scores[r].seq = last_call.seq
            => \A j \in 1..5 : report[2 + 1 + 5 * (r - 1) + j - 1] = tick_log[1].data[1 + j]

\* a name with the bytes 255, 128, 0 and the score 65535 landed among the first 6
C29_Witness ==
    /\ Len(tick_log) >= 1
    /\ tick_log[1].op = "read"
    /\ tick_log[1].data = NameSubmitFrame(<<255, 128, 0>>, 65535)
    /\ ShowScoresReports /= {}
    /\ \E r \in 1..Groups(Len(scores)) : scores[r].seq = last_call.seq

\* the tag of each kind of outbound frame
TagOf(kind) ==
    CASE kind = "Volume" -> CMD_VOLUME_UPDATE
      [] kind = "Media" -> CMD_MEDIA_UPDATE
      [] kind = "DateTime" -> CMD_DATETIME_UPDATE
      [] kind = "Weather" -> CMD_WEATHER_UPDATE
      [] kind = "EnterName" -> MSG_ENTER_NAME
      [] kind = "ShowScores" -> MSG_SHOW_SCORES

\* number of payload bytes that carry fields, for the write at position i of the log
FieldBytes(log, i) ==
    CASE log[i].kind \in {"Volume", "Weather", "EnterName"} -> 1
      [] log[i].kind = "DateTime" -> 7
      [] log[i].kind = "ShowScores" -> 5 * Groups(Len(scores))
      [] log[i].kind = "Media" ->
            LET bytes == Utf8(MediaText(log[i - 1].data))
            IN IF Len(bytes) < 30 THEN Len(bytes) ELSE 30

\* C30: every frame handed to the transport is the report ID and exactly 32 bytes,
\* byte 0 is the tag of its kind, and every payload byte after the fields is zero.
C30_FrameShape ==
    \A i \in 1..Len(tick_log) :
        IsWrite(tick_log[i]) =>
            LET report == tick_log[i].data
            IN /\ Len(report) = 1 + 32
               /\ report[1] = 0
               /\ report[2] = TagOf(tick_log[i].kind)
               /\ \A b \in (2 + FieldBytes(tick_log, i) + 1)..Len(report) : report[b] = 0

\* a title of exactly 30 bytes was sent: the terminator is the last byte
C30_Witness ==
    \E m \in MediaReports : Len(Utf8(m[1])) = 30 /\ m[2][32] = 65 /\ m[2][33] = 0

(***************************************************************************)
(* The order of one iteration (checked under Spec).                        *)
(***************************************************************************)
\* the iteration began with a handle held: it did not begin with a connect attempt
ConnectedTick(log) == log = <<>> \/ log[1].op \notin {"attempt", "interrupt"}

\* the place of a call in a connected iteration: probe, read, answer to the
\* keyboard, then volume, media, date/time and weather, then the close
Stage(ev) ==
    CASE ev.op = "enumerate" -> 0
      [] ev.op = "read" -> 1
      [] ev.op = "save" -> 2
      [] ev.op \in {"write", "poll"} /\ ev.kind \in GameKinds -> 2
      [] ev.op \in {"write", "poll"} /\ ev.kind = "Volume" -> 3
      [] ev.op \in {"write", "poll"} /\ ev.kind = "Media" -> 4
      [] ev.op \in {"write", "poll"} /\ ev.kind = "DateTime" -> 5
      [] ev.op \in {"write", "poll"} /\ ev.kind = "Weather" -> 6
      [] OTHER -> 7

Reads(log) == {i \in 1..Len(log) : log[i].op = "read"}

\* C31: in an iteration that begins connected the calls come in the order probe,
\* one read (so at most one frame is handled), then volume, media, date/time,
\* weather; nothing is polled or written before the read of that iteration.
C31_TickOrder ==
    ConnectedTick(tick_log) =>
        /\ \A i, j \in 1..Len(tick_log) :
             i < j => Stage(tick_log[i]) <= Stage(tick_log[j])
        /\ Cardinality(Reads(tick_log)) <= 1
        /\ \A i \in 1..Len(tick_log) :
             Stage(tick_log[i]) \in 2..6 => \E j \in Reads(tick_log) : j < i
        /\ \A k \in TelemetryKinds, op \in {"poll", "write"} :
             Cardinality({i \in 1..Len(tick_log) :
                            tick_log[i].op = op /\ tick_log[i].kind = k}) <= 1
        /\ (pc \in {"volume", "media", "datetime", "weather"}
            \/ (pc = "top" /\ device /= None))
           => Cardinality(Reads(tick_log)) = 1

\* an iteration with the probe, a frame answered, and all four kinds written
C31_Witness ==
    /\ pc = "top"
    /\ device /= None
    /\ ConnectedTick(tick_log)
    /\ \E i \in 1..Len(tick_log) : tick_log[i].op = "enumerate"
    /\ \A k \in TelemetryKinds \cup {"EnterName"} :
         \E i \in 1..Len(tick_log) : IsWrite(tick_log[i]) /\ tick_log[i].kind = k

\* C32: a write that fails in the pass of a connected iteration ends that
\* iteration: only the close follows it, the handle is gone, and the next thing
\* the loop does is its reconnect branch.
C32_FailedWriteEndsTick ==
    ConnectedTick(tick_log) =>
        \A i \in 1..Len(tick_log) :
            (IsWrite(tick_log[i]) /\ ~tick_log[i].ok) =>
                /\ i = Len(tick_log) - 1
                /\ tick_log[Len(tick_log)].op = "close"
                /\ device = None
                /\ pc = "top"

\* the date/time write failed after volume and media were written
C32_Witness ==
    /\ ConnectedTick(tick_log)
    /\ Len(tick_log) >= 4
    /\ tick_log[Len(tick_log) - 1] = Write("DateTime", DateTimePacket(NowDate), FALSE)
    /\ \E i \in 1..Len(tick_log) :
         IsWrite(tick_log[i]) /\ tick_log[i].kind = "Media" /\ tick_log[i].ok
    /\ device = None

(***************************************************************************)
(* The handle and the values last sent (checked under Spec).               *)
(***************************************************************************)
\* C33: a close that fails on a disconnection path is swallowed: the handle is
\* dropped all the same, the values last sent are forgotten, the loop goes on at
\* its top, and the reconnect attempt can be made once the delay has passed.
C33_FailedCloseStillDisconnects ==
    (/\ pc /= "exit"
     /\ Len(tick_log) >= 1
     /\ tick_log[Len(tick_log)] = Close(FALSE))
    => /\ device = None
       /\ last_volume = None /\ last_media = None /\ last_weather = None
       /\ pc = "top"
       /\ ENABLED Reconnect

\* the probe found the keyboard gone and closing the handle failed
C33_Witness ==
    /\ pc = "top"
    /\ tick_log = <<Ev("enumerate", "", <<>>, FALSE), Close(FALSE)>>
    /\ device = None

\* C34: whenever no handle is held, the last volume, media and weather are unset.
C34_DisconnectedForgetsValues ==
    device = None =>
        last_volume = None /\ last_media = None /\ last_weather = None

\* a weather write failed in an iteration that had written the volume
C34_Witness ==
    /\ pc = "top"
    /\ device = None
    /\ Len(tick_log) >= 3
    /\ tick_log[Len(tick_log)].op = "close"
    /\ IsWrite(tick_log[Len(tick_log) - 1])
    /\ tick_log[Len(tick_log) - 1].kind = "Weather"
    /\ \E i \in 1..Len(tick_log) :
         IsWrite(tick_log[i]) /\ tick_log[i].kind = "Volume" /\ tick_log[i].ok

\* C35: open is called only while no handle is held; a read or a write is made
\* only while a handle is held, and none follows a close in the same iteration.
C35_OneHandle ==
    [][LET made == IF pc' = "exit" THEN <<>>
                   ELSE IF pc = "top" THEN tick_log'
                   ELSE Appended(tick_log, tick_log')
       IN /\ \A i \in 1..Len(made) :
               /\ made[i].op = "open" => device = None
               /\ made[i].op \in {"read", "write"} => device /= None
          /\ \A i, j \in 1..Len(made) :
               (i < j /\ made[i].op = "close")
                   => made[j].op \notin {"read", "write"}
          /\ (pc /= "top" /\ pc' /= "exit" /\ Len(made) > 0)
              => \A i \in 1..Len(tick_log) : tick_log[i].op /= "close"]_vars

\* a handle was closed after a failed write and a new one was opened later
C35_Witness ==
    /\ device /= None
    /\ ~first_connection
    /\ Len(tick_log) >= 3
    /\ tick_log[1].op = "attempt"
    /\ tick_log[1].kind = "reconnect"
    /\ tick_log[3] = Ev("open", "", <<>>, TRUE)

\* C36: a last-known value is set only to a value that was written successfully
\* on this handle: whenever last_volume, last_media or last_weather is set, the
\* frame last delivered for that kind carried that value.
C36_LastKnownWasDelivered ==
    /\ last_volume /= None => pushed.Volume = last_volume
    /\ last_media /= None => pushed.Media = last_media
    /\ last_weather /= None => pushed.Weather = last_weather

(***************************************************************************)
(* More properties of the high score table (checked under SpecBoard).      *)
(***************************************************************************)
\* C37: when add_score returns a rank r other than -1, r is between 0 and 9 and the
\* entry at index r of the resulting table has the name and the score just added.
C37_ReturnedRankHoldsEntry ==
    (last_call.op = "add" /\ last_call.ret /= -1)
    => /\ 0 <= last_call.ret /\ last_call.ret <= 9
       /\ last_call.ret + 1 <= Len(scores)
       /\ scores[last_call.ret + 1].name = last_call.name
       /\ scores[last_call.ret + 1].score = last_call.score

\* an entry was added to a full table and took the last place
C37_Witness ==
    /\ last_call.op = "add"
    /\ last_call.ret = 9
    /\ Len(last_call.before) = TopN
    /\ scores[TopN].seq = last_call.seq

\* C39: the file written by the last insert loads to the table that is in memory:
\* the same names and scores in the same order, equal scores included.
C39_StoreLoadsToTable ==
    next_seq > 1 => PlainList(load_scores(store)) = PlainList(scores)

\* two inserts were made and the table holds equal scores under different names
C39_Witness ==
    /\ next_seq > 2
    /\ Len(scores) = TopN
    /\ \E i \in 1..(Len(scores) - 1) :
         scores[i].score = scores[i + 1].score /\ scores[i].name /= scores[i + 1].name

(***************************************************************************)
(* What a frame does to the table (checked under SpecGame).                *)
(***************************************************************************)
\* C38: handling a score submission, whichever answer is sent and whether or not
\* its write succeeds, leaves the table and the file as they were; the only step
\* that changes either is the handling of a complete name submission.
C38_ScoreSubmitReadsOnly ==
    [][/\ (pc = "read" /\ pc' /= "exit" /\ Len(tick_log') > Len(tick_log))
          => LET frame == Appended(tick_log, tick_log')[1].data
             IN (Len(frame) > 0 /\ frame[1] = MSG_SCORE_SUBMIT)
                => scores' = scores /\ store' = store
       /\ (scores' /= scores \/ store' /= store)
          => /\ pc = "read"
             /\ Len(tick_log') > Len(tick_log)
             /\ LET frame == Appended(tick_log, tick_log')[1].data
                IN Len(frame) >= 6 /\ frame[1] = MSG_NAME_SUBMIT]_vars

\* a score that made the top 10 was answered, the write of the answer failed, and
\* the table still has the nine entries it had
C38_Witness ==
    /\ Len(tick_log) >= 3
    /\ \E i \in 1..(Len(tick_log) - 1) :
         /\ tick_log[i].op = "read"
         /\ tick_log[i].data = ScoreSubmitFrame(30)
         /\ IsWrite(tick_log[i + 1])
         /\ tick_log[i + 1].kind = "EnterName"
         /\ ~tick_log[i + 1].ok
    /\ last_call.op = "check"
    /\ Len(scores) = TopN - 1

(***************************************************************************)
(* The loop left running: no interrupt arrives, and every iteration that   *)
(* can be made is made (each call returns and each sleep ends).            *)
(***************************************************************************)
\* started on Linux with the weather enabled and without --test-date, so that all
\* four kinds are polled and sent
InitLive ==
    /\ Init
    /\ test_date = None
    /\ weather_enabled
    /\ system = "Linux"

SpecLive == InitLive /\ [][Tick]_vars /\ WF_vars(Tick)

\* a step in which the keyboard was found wherever it was looked for, every open
\* and every write succeeded
Calm ==
    \A i \in 1..Len(tick_log') :
        tick_log'[i].op \in {"enumerate", "open", "write"} => tick_log'[i].ok

\* C40: if from some point on the keyboard is always found, every open and every
\* write succeeds, then the session is eventually connected and stays connected.
C40_EventuallyConnectedForGood ==
    (<>[][Calm]_vars) => <>[](device /= None)

\* connected again after a disconnection, all four kinds synced
C40_Witness ==
    /\ device /= None
    /\ ~first_connection
    /\ pc = "top"
    /\ Len(tick_log) >= 1
    /\ tick_log[1].op = "attempt"
    /\ tick_log[1].kind = "reconnect"
    /\ \A i \in 1..Len(tick_log) : tick_log[i].ok

=============================================================================
